---------------------------- MODULE Spec2Model ----------------------------
(***************************************************************************)
(* A model of sse-server.py: the three request-carrying bindings          *)
(* (POST /mcp/sse, POST /mcp, WebSocket /mcp/ws), the push stream          *)
(* (GET /mcp/sse) and the two tool functions they share; and of the       *)
(* QueuingSession of mcp-server.py.                                        *)
(*                                                                         *)
(* Spec follows one client that uses one connection at a time, with the    *)
(* full set of bodies and frames; ConcSpec interleaves two WebSocket       *)
(* connections, a push stream and unary requests, with few frames;         *)
(* QueueSpec follows one QueuingSession.                                   *)
(*                                                                         *)
(* Python values that arrive from the peer are tagged records, so that a   *)
(* mapping, a list, a string, a number and None stay distinguishable:      *)
(*   [t |-> "None"], [t |-> "int", v |-> 1], [t |-> "str", v |-> "x"],     *)
(*   [t |-> "list"], [t |-> "dict", v |-> [key |-> value]].                *)
(* A Python call either returns or raises; both are records:               *)
(*   [raised |-> FALSE, val |-> v]  and                                    *)
(*   [raised |-> TRUE, exc |-> "ValueError", msg |-> <<...>>].             *)
(* An exception message (str(e)) is the sequence of the pieces the         *)
(* f-string joins.                                                         *)
(***************************************************************************)
EXTENDS Integers, Sequences, FiniteSets, TLC

VARIABLES
    SAMPLE_TASKS,   \* the module-level task table
    http,           \* the unary exchange last served (POST /mcp, POST /mcp/sse)
    ws,             \* the WebSocket connection: the loop of mcp_websocket_endpoint
    sse,            \* the push stream: the generator event_stream
    ws2,            \* a second WebSocket connection, open at the same time
    session         \* the QueuingSession of mcp-server.py

vars == <<SAMPLE_TASKS, http, ws, sse, ws2, session>>

---------------------------------------------------------------------------
(* Bounds of the model *)

\* inbound messages on each of two WebSocket connections open at once
MaxConcMsgs == 2

\* requests that arrive on one QueuingSession
MaxRequests == 3

\* inbound messages on one WebSocket connection
MaxMsgs == 3

\* liveness envelopes of one push stream that the model tells apart
MaxPings == 2

---------------------------------------------------------------------------
(* Python values *)

None == [t |-> "None"]

PyInt(n) == [t |-> "int", v |-> n]

PyStr(s) == [t |-> "str", v |-> s]

PyList == [t |-> "list"]

PyDict(d) == [t |-> "dict", v |-> d]

Return(v) == [raised |-> FALSE, val |-> v]

Raise(e, m) == [raised |-> TRUE, exc |-> e, msg |-> m]

\* str(x) inside an f-string: None prints as "None", a string as itself
Format(x) ==
    CASE x.t = "None" -> "None"
      [] x.t = "str"  -> x.v
      [] x.t = "int"  -> IF x.v = 1 THEN "1" ELSE IF x.v = 2 THEN "2" ELSE "5"
      [] x.t = "list" -> "[]"
      [] OTHER        -> "{...}"

\* mapping.get(key, default); on a value that is no mapping Python raises
\* AttributeError
DictGet(m, key, default) ==
    IF m.t = "dict"
    THEN Return(IF key \in DOMAIN m.v THEN m.v[key] ELSE default)
    ELSE Raise("AttributeError", <<"object has no attribute 'get'">>)

\* str.lower() on the strings of the model
Lower(s) ==
    CASE s = "ALL"  -> "all"
      [] s = "Work" -> "work"
      [] OTHER      -> s

---------------------------------------------------------------------------
(* The task table and the catalog *)

Task(i, title, status, priority, due) ==
    [id |-> i, title |-> title, status |-> status, priority |-> priority,
     due_date |-> due]

\* dict order of SAMPLE_TASKS
CategoryOrder == <<"work", "personal", "learning", "home">>

InitialTasks ==
    [c \in {"work", "personal", "learning", "home"} |->
       CASE c = "work" ->
              << Task(1, "Complete project proposal", "pending", "high", "2024-01-15"),
                 Task(2, "Review code changes", "in_progress", "medium", "2024-01-12"),
                 Task(3, "Team meeting preparation", "completed", "low", "2024-01-10"),
                 Task(4, "Update documentation", "pending", "medium", "2024-01-20") >>
         [] c = "personal" ->
              << Task(5, "Grocery shopping", "pending", "medium", "2024-01-13"),
                 Task(6, "Doctor appointment", "completed", "high", "2024-01-08"),
                 Task(7, "Call family", "pending", "low", "2024-01-14"),
                 Task(8, "Exercise routine", "in_progress", "medium", "2024-01-11") >>
         [] c = "learning" ->
              << Task(9, "Read Python book chapter 5", "in_progress", "medium", "2024-01-16"),
                 Task(10, "Complete online course module", "pending", "high", "2024-01-18"),
                 Task(11, "Practice coding exercises", "completed", "low", "2024-01-09") >>
         [] OTHER ->
              << Task(12, "Fix leaky faucet", "pending", "high", "2024-01-17"),
                 Task(13, "Organize garage", "pending", "low", "2024-01-25"),
                 Task(14, "Plant new flowers", "completed", "medium", "2024-01-05") >> ]

Tool(name, description, inputSchema) ==
    [cls |-> "Tool", name |-> name, description |-> description,
     inputSchema |-> inputSchema]

TextContent(type, text) == [cls |-> "TextContent", type |-> type, text |-> text]

\* model_dump() of a Tool or a TextContent: the mapping of its fields
model_dump(obj) ==
    IF obj.cls = "Tool"
    THEN [name |-> obj.name, description |-> obj.description,
          inputSchema |-> obj.inputSchema]
    ELSE [type |-> obj.type, text |-> obj.text]

GetTasklistSchema ==
    [type |-> "object",
     properties |->
        [category |->
           [type |-> "string",
            description |-> "The category to filter tasks by",
            enum |-> <<"work", "personal", "learning", "home", "all">>]],
     required |-> <<"category">>]

TestSlackSchema == [type |-> "object", properties |-> <<>>, required |-> <<>>]

handle_list_tools ==
    << Tool("get_tasklist", "Get a list of tasks filtered by category",
            GetTasklistSchema),
       Tool("test_slack", "Test Slack integration", TestSlackSchema) >>

\* json.dumps(data): the text that encodes data
JsonDumps(data) == [json |-> data]

\* datetime.now().isoformat(): the model does not tell instants apart
Timestamp == "datetime.now()"

\* a copy that files every task under work
WithCategoryWork(task, cat) ==
    [k \in DOMAIN task \cup {"category"} |->
        IF k = "category" THEN "work" ELSE task[k]]

\* {**task, "category": cat} and task.copy() followed by the assignment
WithCategory(task, cat) ==
    [k \in DOMAIN task \cup {"category"} |->
        IF k = "category" THEN cat ELSE task[k]]

RECURSIVE TasksOf(_, _, _)
\* the tasks of the categories order[i..], each with its category
TasksOf(tasks, order, i) ==
    IF i > Len(order) THEN <<>>
    ELSE [j \in 1..Len(tasks[order[i]]) |-> WithCategory(tasks[order[i]][j], order[i])]
         \o TasksOf(tasks, order, i + 1)

\* the try block with a message that lists the stored categories only
GetTasklistBodyKeysOnly(tasks, category) ==
    IF category = "all"
    THEN Return(TasksOf(tasks, CategoryOrder, 1))
    ELSE IF category \in DOMAIN tasks
    THEN Return([j \in 1..Len(tasks[category]) |->
                    WithCategory(tasks[category][j], category)])
    ELSE Raise("ValueError",
               <<"Invalid category '", category, "'. Available categories: ",
                 "work", ", ", "personal", ", ", "learning", ", ", "home">>)

\* the try block of get_tasklist (lines 113-147)
GetTasklistBody(tasks, category) ==
    IF category = "all"
    THEN Return(TasksOf(tasks, CategoryOrder, 1))
    ELSE IF category \in DOMAIN tasks
    THEN Return([j \in 1..Len(tasks[category]) |->
                    WithCategory(tasks[category][j], category)])
    ELSE Raise("ValueError",
               <<"Invalid category '", category, "'. Available categories: ",
                 "work", ", ", "personal", ", ", "learning", ", ", "home",
                 ", ", "all">>)

\* the get_tasklist branch of handle_call_tool (lines 106-151)
GetTasklist(tasks, arguments) ==
    IF arguments.t \in {"None", "int"}
    THEN Raise("TypeError", <<"argument of type is not iterable">>)
    ELSE IF arguments.t # "dict" \/ "category" \notin DOMAIN arguments.v
    THEN Raise("ValueError", <<"Missing required argument: category">>)
    ELSE IF arguments.v["category"].t # "str"
    THEN Raise("AttributeError", <<"object has no attribute 'lower'">>)
    ELSE LET category == Lower(arguments.v["category"].v)
             r == GetTasklistBody(tasks, category)
         IN  IF r.raised
             THEN Raise("ValueError", <<"Error retrieving tasks: ">> \o r.msg)
             ELSE Return(<<TextContent("text",
                      JsonDumps([category |-> category,
                                 total_tasks |-> Len(r.val),
                                 tasks |-> r.val,
                                 timestamp |-> Timestamp]))>>)

\* handle_call_tool without its last branch: an unknown name yields no content
handle_call_tool_no_else(tasks, name, arguments) ==
    IF name = PyStr("test_slack")
    THEN Return(<<TextContent("text", "bingo!")>>)
    ELSE IF name = PyStr("get_tasklist")
    THEN GetTasklist(tasks, arguments)
    ELSE Return(<<>>)

handle_call_tool(tasks, name, arguments) ==
    IF name = PyStr("test_slack")
    THEN Return(<<TextContent("text", "bingo!")>>)
    ELSE IF name = PyStr("get_tasklist")
    THEN GetTasklist(tasks, arguments)
    ELSE Raise("ValueError", <<"Unknown tool: ", Format(name)>>)

\* the stored task after an assignment of the category on the stored
\* mapping itself
AssignedInPlace(task, cat) ==
    [k \in DOMAIN task \cup {"category"} |->
        IF k = "category" THEN cat ELSE task[k]]

\* the stored task after task.copy() and the assignment of the category
\* on the copy (lines 119-120): the stored mapping is not assigned
AssignedOnCopy(task, cat) == task

\* SAMPLE_TASKS after handle_call_tool(name, arguments). The loop of the
\* branch "all" (lines 117-121) is the only place that assigns to a task
\* mapping; the category branch builds new mappings ({**task, ...}).
tasks_after_call(tasks, name, arguments) ==
    IF /\ name = PyStr("get_tasklist")
       /\ arguments.t = "dict"
       /\ "category" \in DOMAIN arguments.v
       /\ arguments.v["category"].t = "str"
       /\ Lower(arguments.v["category"].v) = "all"
    THEN [cat \in DOMAIN tasks |->
            [j \in 1..Len(tasks[cat]) |-> AssignedOnCopy(tasks[cat][j], cat)]]
    ELSE tasks

---------------------------------------------------------------------------
(* Request bodies and frames *)

\* marks a key that the envelope does not carry
Absent == [t |-> "absent"]

\* the JSON object with the keys method, id, params that are not Absent
Envelope(method, id, params) ==
    LET field == [k \in {"method", "id", "params"} |->
                    IF k = "method" THEN method ELSE IF k = "id" THEN id ELSE params]
    IN  PyDict([k \in {x \in {"method", "id", "params"} : field[x] # Absent} |->
                    field[k]])

\* the params object with the keys name, arguments that are not Absent
CallParams(name, arguments) ==
    LET field == [k \in {"name", "arguments"} |->
                    IF k = "name" THEN name ELSE arguments]
    IN  PyDict([k \in {x \in {"name", "arguments"} : field[x] # Absent} |->
                    field[k]])

Category(c) == PyDict([category |-> c])

Ids == {Absent, PyInt(1), PyInt(2)}

OtherMethods ==
    {Absent, PyStr("initialize"), PyStr("tools/list"),
     PyStr("notifications/initialized"), PyStr("foo")}

ToolCallParams ==
    {Absent, PyList,
     CallParams(Absent, Absent),
     CallParams(PyStr("nope"), Absent),
     CallParams(PyStr("test_slack"), Absent),
     CallParams(PyStr("get_tasklist"), Absent),
     CallParams(PyStr("get_tasklist"), Category(PyStr("Work"))),
     CallParams(PyStr("get_tasklist"), Category(PyStr("ALL"))),
     CallParams(PyStr("get_tasklist"), Category(PyStr("bogus"))),
     CallParams(PyStr("get_tasklist"), Category(PyInt(5))),
     CallParams(PyStr("get_tasklist"), None)}

Envelopes ==
    {Envelope(m, i, p) : m \in OtherMethods, i \in Ids, p \in {Absent, PyList}}
    \cup {Envelope(PyStr("tools/call"), i, p) : i \in Ids, p \in ToolCallParams}

\* a request body: no bytes, bytes that are not UTF-8, text that is not
\* JSON, or the JSON text of a value
Body(kind, value) == [kind |-> kind, value |-> value]

NonMappings == {PyList, PyStr("x"), PyInt(5)}

Bodies ==
    {Body("empty", None), Body("binary", None), Body("text", None)}
    \cup {Body("json", v) : v \in NonMappings \cup Envelopes}

\* receive_text() delivers text frames
Frames == {b \in Bodies : b.kind # "binary"}

\* body.decode()
Decode(body) ==
    IF body.kind = "binary"
    THEN Raise("UnicodeDecodeError", <<"invalid start byte">>)
    ELSE Return(body)

\* json.loads(text)
JsonLoads(text) ==
    IF text.kind = "json"
    THEN Return(text.value)
    ELSE Raise("JSONDecodeError", <<"Expecting value">>)

---------------------------------------------------------------------------
(* Response envelopes *)

\* a success envelope that also carries an error key
ResultEnvelopeWithError(request_id, result) ==
    [jsonrpc |-> "2.0", id |-> request_id, result |-> result, error |-> None]

ResultEnvelope(request_id, result) ==
    [jsonrpc |-> "2.0", id |-> request_id, result |-> result]

ErrorEnvelope(request_id, code, message) ==
    [jsonrpc |-> "2.0", id |-> request_id,
     error |-> [code |-> code, message |-> message]]

ParseError == ErrorEnvelope(None, -32700, <<"Parse error">>)

\* the error envelope whose message does not name the method
MethodNotFoundUnnamed(request_id, method) ==
    ErrorEnvelope(request_id, -32601, <<"Method not found">>)

\* the error envelope of the last branch of each dispatch
\* (lines 327-334, 523-530, 642-649)
MethodNotFound(request_id, method) ==
    ErrorEnvelope(request_id, -32601, <<"Method not found: ", Format(method)>>)

\* an initialize result that tells how many frames the connection has seen
InitializeResultCounting(tools) ==
    [protocolVersion |-> "2024-11-05",
     capabilities |-> [tools |-> tools],
     serverInfo |-> [name |-> "mcp-sse-server", version |-> "0.1.0"],
     frames |-> Len(ws.recv)]

\* the result of initialize; tools is the declared tools capability
InitializeResult(tools) ==
    [protocolVersion |-> "2024-11-05",
     capabilities |-> [tools |-> tools],
     serverInfo |-> [name |-> "mcp-sse-server", version |-> "0.1.0"]]

ListChanged == [listChanged |-> TRUE]

\* the literal with its two entries in the other order
tools_data_swapped ==
    << [name |-> "test_slack",
        description |-> "Test Slack integration",
        inputSchema |-> TestSlackSchema],
       [name |-> "get_tasklist",
        description |-> "Get a list of tasks filtered by category",
        inputSchema |-> GetTasklistSchema] >>

\* the tools_data literal of the two POST handlers
tools_data ==
    << [name |-> "get_tasklist",
        description |-> "Get a list of tasks filtered by category",
        inputSchema |-> GetTasklistSchema],
       [name |-> "test_slack",
        description |-> "Test Slack integration",
        inputSchema |-> TestSlackSchema] >>

Dump(objs) == [j \in 1..Len(objs) |-> model_dump(objs[j])]

\* What an HTTP handler does with one request: the status, the JSON body
\* when it returns one (kind "json"), and the tool functions it invoked.
\* kind "fault": an exception left the handler.
HttpJson(envelope, calls) ==
    [status |-> 200, kind |-> "json", body |-> envelope, calls |-> calls]

HttpStatus(status, calls) ==
    [status |-> status, kind |-> "empty", body |-> None, calls |-> calls]

HttpFault(exc) ==
    [status |-> 500, kind |-> "fault", body |-> None, calls |-> <<>>]

---------------------------------------------------------------------------
(* POST /mcp/sse *)

\* the try block of mcp_sse_endpoint (lines 231-335)
SseTry(tasks, body) ==
    LET text == Decode(body) IN
    IF text.raised THEN text ELSE
    LET loaded == JsonLoads(text.val) IN
    IF loaded.raised THEN loaded ELSE
    LET message == loaded.val
        method == DictGet(message, "method", None) IN
    IF method.raised THEN method ELSE
    LET request_id == DictGet(message, "id", None).val
        params == DictGet(message, "params", PyDict(<<>>)).val IN
    IF method.val = PyStr("initialize")
    THEN Return(HttpJson(ResultEnvelope(request_id, InitializeResult(ListChanged)), <<>>))
    ELSE IF method.val = PyStr("tools/list")
    THEN Return(HttpJson(ResultEnvelope(request_id, [tools |-> tools_data]), <<>>))
    ELSE IF method.val = PyStr("tools/call")
    THEN LET tool_name == DictGet(params, "name", None) IN
         IF tool_name.raised THEN tool_name ELSE
         LET arguments == DictGet(params, "arguments", PyDict(<<>>)).val
             result == handle_call_tool(tasks, tool_name.val, arguments) IN
         IF result.raised
         THEN Return(HttpJson(ErrorEnvelope(request_id, -32603, result.msg),
                              <<"handle_call_tool">>))
         ELSE Return(HttpJson(ResultEnvelope(request_id, [content |-> Dump(result.val)]),
                              <<"handle_call_tool">>))
    ELSE IF method.val = PyStr("notifications/initialized")
    THEN Return(HttpStatus(202, <<>>))
    ELSE Return(HttpJson(MethodNotFound(request_id, method.val), <<>>))

mcp_sse_endpoint(tasks, body) ==
    IF body.kind # "empty"
    THEN LET r == SseTry(tasks, body) IN
         IF ~r.raised THEN r.val
         ELSE IF r.exc = "JSONDecodeError" THEN HttpJson(ParseError, <<>>)
         ELSE HttpFault(r.exc)
    ELSE HttpStatus(400, <<>>)

---------------------------------------------------------------------------
(* POST /mcp *)

\* the try block of mcp_endpoint (lines 434-531)
McpTry(tasks, body) ==
    LET text == Decode(body) IN
    IF text.raised THEN text ELSE
    LET loaded == JsonLoads(text.val) IN
    IF loaded.raised THEN loaded ELSE
    LET message == loaded.val
        method == DictGet(message, "method", None) IN
    IF method.raised THEN method ELSE
    LET request_id == DictGet(message, "id", None).val
        params == DictGet(message, "params", PyDict(<<>>)).val IN
    IF method.val = PyStr("initialize")
    THEN Return(HttpJson(ResultEnvelope(request_id, InitializeResult(ListChanged)), <<>>))
    ELSE IF method.val = PyStr("tools/list")
    THEN Return(HttpJson(ResultEnvelope(request_id, [tools |-> tools_data]), <<>>))
    ELSE IF method.val = PyStr("tools/call")
    THEN LET tool_name == DictGet(params, "name", None) IN
         IF tool_name.raised THEN tool_name ELSE
         LET arguments == DictGet(params, "arguments", PyDict(<<>>)).val
             result == handle_call_tool(tasks, tool_name.val, arguments) IN
         IF result.raised
         THEN Return(HttpJson(ErrorEnvelope(request_id, -32603, result.msg),
                              <<"handle_call_tool">>))
         ELSE Return(HttpJson(ResultEnvelope(request_id, [content |-> Dump(result.val)]),
                              <<"handle_call_tool">>))
    ELSE Return(HttpJson(MethodNotFound(request_id, method.val), <<>>))

mcp_endpoint(tasks, body) ==
    LET r == McpTry(tasks, body) IN
    IF ~r.raised THEN r.val ELSE HttpJson(ParseError, <<>>)

---------------------------------------------------------------------------
(* WebSocket /mcp/ws *)

\* What one pass of the loop does after receive_text(): the frames it
\* sends and the tool functions it invoked.
WsSend(envelope, calls) == [send |-> <<envelope>>, calls |-> calls]

\* the inner try block of mcp_websocket_endpoint (lines 583-650)
WsTry(tasks, data) ==
    LET loaded == JsonLoads(data) IN
    IF loaded.raised THEN loaded ELSE
    LET message == loaded.val
        method == DictGet(message, "method", None) IN
    IF method.raised THEN method ELSE
    LET request_id == DictGet(message, "id", None).val
        params == DictGet(message, "params", PyDict(<<>>)).val IN
    IF method.val = PyStr("initialize")
    THEN Return(WsSend(ResultEnvelope(request_id, InitializeResult(<<>>)), <<>>))
    ELSE IF method.val = PyStr("tools/list")
    THEN Return(WsSend(ResultEnvelope(request_id, [tools |-> Dump(handle_list_tools)]),
                       <<"handle_list_tools">>))
    ELSE IF method.val = PyStr("tools/call")
    THEN LET tool_name == DictGet(params, "name", None) IN
         IF tool_name.raised THEN tool_name ELSE
         LET arguments == DictGet(params, "arguments", PyDict(<<>>)).val
             result == handle_call_tool(tasks, tool_name.val, arguments) IN
         IF result.raised
         THEN Return(WsSend(ErrorEnvelope(request_id, -32603, result.msg),
                            <<"handle_call_tool">>))
         ELSE Return(WsSend(ResultEnvelope(request_id, [content |-> Dump(result.val)]),
                            <<"handle_call_tool">>))
    ELSE Return(WsSend(MethodNotFound(request_id, method.val), <<>>))

\* a pass that sends the ParseError envelope and then leaves the loop
WsIterationClosing(tasks, data) ==
    LET r == WsTry(tasks, data) IN
    IF ~r.raised
    THEN [send |-> r.val.send, calls |-> r.val.calls, continue |-> TRUE]
    ELSE IF r.exc = "JSONDecodeError"
    THEN [send |-> <<ParseError>>, calls |-> <<>>, continue |-> FALSE]
    ELSE [send |-> <<>>, calls |-> <<>>, continue |-> FALSE]

\* one pass of the while loop (lines 577-662) on the frame data: what is
\* sent, and whether the loop goes on (an exception other than
\* JSONDecodeError leaves the loop, lines 664-667)
WsIteration(tasks, data) ==
    LET r == WsTry(tasks, data) IN
    IF ~r.raised
    THEN [send |-> r.val.send, calls |-> r.val.calls, continue |-> TRUE]
    ELSE IF r.exc = "JSONDecodeError"
    THEN [send |-> <<ParseError>>, calls |-> <<>>, continue |-> TRUE]
    ELSE [send |-> <<>>, calls |-> <<>>, continue |-> FALSE]

---------------------------------------------------------------------------
(* What a request leaves in SAMPLE_TASKS *)

\* a handler that empties the table it has served
tasks_after_clearing(tasks, data) == [cat \in DOMAIN tasks |-> <<>>]

\* SAMPLE_TASKS after one of the three handlers has dealt with data: they
\* touch it through handle_call_tool only, which they call for a tools/call
\* whose params are a mapping
tasks_after(tasks, data) ==
    LET loaded == JsonLoads(data) IN
    IF loaded.raised THEN tasks ELSE
    LET method == DictGet(loaded.val, "method", None) IN
    IF method.raised \/ method.val # PyStr("tools/call") THEN tasks ELSE
    LET params == DictGet(loaded.val, "params", PyDict(<<>>)).val
        tool_name == DictGet(params, "name", None) IN
    IF tool_name.raised THEN tasks ELSE
    tasks_after_call(tasks, tool_name.val,
                     DictGet(params, "arguments", PyDict(<<>>)).val)

---------------------------------------------------------------------------
(* GET /tools and GET /tasks/{category} *)

\* What a GET handler returns: the status and the JSON document, and the
\* tool functions it invoked.
HttpData(status, data, calls) ==
    [status |-> status, kind |-> "data", body |-> data, calls |-> calls]

\* raise HTTPException(status_code, detail)
HTTPException(status_code, detail, calls) ==
    HttpData(status_code, [detail |-> detail], calls)

\* json.loads of a text that json.dumps wrote
JsonLoadsText(text) == text.json

\* list_tools (lines 204-208)
list_tools == HttpData(200, [tools |-> Dump(handle_list_tools)], <<"handle_list_tools">>)

\* the category segments of the path that the model requests
PathCategories ==
    {"work", "personal", "learning", "home", "all", "Work", "ALL", "bogus",
     "done"}

\* get_tasks (lines 210-220)
get_tasks(tasks, category) ==
    LET result == handle_call_tool(tasks, PyStr("get_tasklist"),
                                   PyDict([category |-> PyStr(category)])) IN
    IF ~result.raised
    THEN HttpData(200, JsonLoadsText(result.val[1].text), <<"handle_call_tool">>)
    ELSE IF result.exc = "ValueError"
    THEN HTTPException(400, result.msg, <<"handle_call_tool">>)
    ELSE HTTPException(500, <<"Internal server error">>, <<"handle_call_tool">>)

---------------------------------------------------------------------------
(* What the peer sent, as the peer sees it *)

IsEnvelope(body) == body.kind = "json" /\ body.value.t = "dict"

HasKey(body, key) == IsEnvelope(body) /\ key \in DOMAIN body.value.v

\* the id of an envelope, None when it carries none or is no envelope
IdOf(body) == IF HasKey(body, "id") THEN body.value.v["id"] ELSE None

\* the method of an envelope, None when it carries none or is no envelope
MethodOf(body) == IF HasKey(body, "method") THEN body.value.v["method"] ELSE None

---------------------------------------------------------------------------
(* State *)

\* http: the endpoint and body of the unary request last served (for a GET
\*   of /tasks/{category} the body is the path parameter) and what
\*   the handler did with it (resp); handshake records that an earlier
\*   exchange of the run was an initialize.
\* ws: pc is the place of the loop ("receive": in receive_text, "handle":
\*   between receive_text and send_text, "closed": the handler is over);
\*   data is the frame last received; out and calls are the frames sent and
\*   the tool functions invoked for it; recv and sent are the ids of all
\*   frames received and of all envelopes sent, in order; handshake records
\*   that an initialize has been answered on the connection; prev is the
\*   frame received before data and the frames sent for it.
\* sse: pc is the place of the generator ("start": before the first yield,
\*   "tools": before the second, "sleep": in the loop); out holds the frames
\*   yielded; clock is the time slept since the last yield; pings counts the
\*   heartbeats.
\* The handlers keep none of handshake, recv, sent, calls, prev: they record what
\* happened, for the properties.

HttpIdle ==
    [endpoint |-> "none", body |-> Body("empty", None),
     resp |-> HttpStatus(0, <<>>), handshake |-> FALSE]

WsIdle ==
    [pc |-> "idle", data |-> Body("empty", None), out |-> <<>>, calls |-> <<>>,
     recv |-> <<>>, sent |-> <<>>, handshake |-> FALSE,
     prev |-> [data |-> Body("empty", None), out |-> <<>>]]

SseIdle == [pc |-> "idle", out |-> <<>>, clock |-> 0, pings |-> 0]

\* asyncio.sleep(30)
PingInterval == 30

\* session (mcp-server.py): initialized is the event _initialized; held are
\*   the requests whose _received_request waits for it, in the order of
\*   their arrival, each with its method, its number of arrival n and
\*   whether it arrived before the event was set (early); passed are the
\*   requests given to the base handler; received counts the requests that
\*   have arrived.
SessionIdle ==
    [initialized |-> FALSE, held |-> <<>>, passed |-> <<>>, received |-> 0]

Init ==
    /\ SAMPLE_TASKS = InitialTasks
    /\ http = HttpIdle
    /\ ws = WsIdle
    /\ sse = SseIdle
    /\ ws2 = WsIdle
    /\ session = SessionIdle

\* The model follows one client, which uses one connection at a time: a
\* run of unary exchanges, one WebSocket connection or one push stream.
Quiet == ws.pc = "idle" /\ sse.pc = "idle"

\* an adapter bound to a session: tools/list is refused unless the
\* exchange before it was an initialize
EndpointOfSession(endpoint, tasks, body) ==
    IF MethodOf(body) = PyStr("tools/list")
       /\ MethodOf(http.body) # PyStr("initialize")
    THEN HttpJson(ErrorEnvelope(IdOf(body), -32603, <<"Not initialized">>), <<>>)
    ELSE IF endpoint = "/mcp/sse" THEN mcp_sse_endpoint(tasks, body)
    ELSE mcp_endpoint(tasks, body)

Endpoint(endpoint, tasks, body) ==
    IF endpoint = "/mcp/sse" THEN mcp_sse_endpoint(tasks, body)
    ELSE mcp_endpoint(tasks, body)

\* the exchange that a POST of body on endpoint leaves in http
Posted(endpoint, body) ==
    [endpoint |-> endpoint, body |-> body,
     resp |-> Endpoint(endpoint, SAMPLE_TASKS, body),
     handshake |-> http.handshake
                   \/ (http.endpoint # "none"
                       /\ MethodOf(http.body) = PyStr("initialize"))]

\* a POST on one of the two unary endpoints, served in one step
UnaryPost(endpoint, body) ==
    /\ Quiet
    /\ http' = Posted(endpoint, body)
    /\ SAMPLE_TASKS' = tasks_after(SAMPLE_TASKS, body)
    /\ UNCHANGED <<ws, sse, ws2, session>>

\* a GET of /tools, served in one step
ListTools ==
    /\ Quiet
    /\ http' = [endpoint |-> "/tools", body |-> Body("empty", None),
                resp |-> list_tools,
                handshake |-> http.handshake
                              \/ (http.endpoint # "none"
                                  /\ MethodOf(http.body) = PyStr("initialize"))]
    /\ UNCHANGED <<SAMPLE_TASKS, ws, sse, ws2, session>>

\* a GET of /tasks/{category}, served in one step; body holds the path
\* parameter
GetTasks(category) ==
    /\ Quiet
    /\ http' = [endpoint |-> "/tasks/{category}",
                body |-> Body("path", PyStr(category)),
                resp |-> get_tasks(SAMPLE_TASKS, category),
                handshake |-> http.handshake
                              \/ (http.endpoint # "none"
                                  /\ MethodOf(http.body) = PyStr("initialize"))]
    /\ SAMPLE_TASKS' = tasks_after_call(SAMPLE_TASKS, PyStr("get_tasklist"),
                                        PyDict([category |-> PyStr(category)]))
    /\ UNCHANGED <<ws, sse, ws2, session>>

\* the outer except clauses of mcp_websocket_endpoint given nothing to
\* catch WebSocketDisconnect: the exception leaves the handler
mcp_websocket_except_nothing(exc) == "raised"

\* the outer except clauses of mcp_websocket_endpoint (lines 664-667): the
\* place of the handler after exc has left the while loop. Both clauses log
\* and fall through to the end of the function.
mcp_websocket_except(exc) ==
    IF exc \in {"WebSocketDisconnect", "Exception"} THEN "closed" ELSE "raised"

\* the connection w after receive_text() has returned data
Received(w, data) ==
    [w EXCEPT !.pc = "handle", !.data = data, !.out = <<>>,
              !.prev = [data |-> w.data, out |-> w.out],
              !.calls = <<>>, !.recv = Append(@, IdOf(data))]

\* the connection w after the pass on w.data
Passed(w, tasks) ==
    LET r == WsIteration(tasks, w.data) IN
    [w EXCEPT !.pc = IF r.continue THEN "receive" ELSE "closed",
              !.out = r.send,
              !.calls = r.calls,
              !.sent = @ \o [j \in 1..Len(r.send) |-> r.send[j].id],
              !.handshake = @ \/ (Len(r.send) > 0
                                  /\ MethodOf(w.data) = PyStr("initialize"))]

\* the connection w after receive_text() has raised WebSocketDisconnect
Disconnected(w) == [w EXCEPT !.pc = mcp_websocket_except("WebSocketDisconnect")]

\* websocket.accept() (line 573)
WsAccept ==
    /\ Quiet
    /\ ws' = [WsIdle EXCEPT !.pc = "receive"]
    /\ http' = HttpIdle
    /\ UNCHANGED <<SAMPLE_TASKS, sse, ws2, session>>

\* receive_text() returns a frame (line 579)
WsReceive(data) ==
    /\ ws.pc = "receive"
    /\ Len(ws.recv) < MaxMsgs
    /\ ws' = Received(ws, data)
    /\ UNCHANGED <<SAMPLE_TASKS, http, sse, ws2, session>>

\* the rest of the pass: dispatch and send_text (lines 582-662)
WsHandle ==
    /\ ws.pc = "handle"
    /\ ws' = Passed(ws, SAMPLE_TASKS)
    /\ SAMPLE_TASKS' = tasks_after(SAMPLE_TASKS, ws.data)
    /\ UNCHANGED <<http, sse, ws2, session>>

\* receive_text() raises WebSocketDisconnect (lines 664-665)
WsDisconnect ==
    /\ ws.pc = "receive"
    /\ ws' = Disconnected(ws)
    /\ UNCHANGED <<SAMPLE_TASKS, http, sse, ws2, session>>

\* the handler has returned; the client goes on
WsReturn ==
    /\ ws.pc = "closed"
    /\ ws' = WsIdle
    /\ UNCHANGED <<SAMPLE_TASKS, http, sse, ws2, session>>

---------------------------------------------------------------------------
(* GET /mcp/sse: the generator event_stream *)

server_info ==
    [jsonrpc |-> "2.0", method |-> "notifications/initialized",
     params |-> InitializeResult(ListChanged)]

tools_notification ==
    [jsonrpc |-> "2.0", method |-> "notifications/tools_changed",
     params |-> [tools |-> Dump(handle_list_tools)]]

heartbeat ==
    [jsonrpc |-> "2.0", method |-> "notifications/ping",
     params |-> [timestamp |-> Timestamp]]

\* f"data: {json.dumps(envelope)}\n\n"
SseFrame(envelope) == <<"data: ", JsonDumps(envelope), "\n\n">>

\* the envelope a client reads out of a frame
EnvelopeOf(frame) == frame[2].json

\* the generator with its first two yield statements in the other order
SseYieldSwapped(pc) ==
    CASE pc = "start" -> SseFrame(tools_notification)
      [] pc = "tools" -> SseFrame(server_info)
      [] OTHER        -> SseFrame(heartbeat)

\* what the generator yields at each of its yield statements
\* (lines 377, 388, 400)
SseYield(pc) ==
    CASE pc = "start" -> SseFrame(server_info)
      [] pc = "tools" -> SseFrame(tools_notification)
      [] OTHER        -> SseFrame(heartbeat)

\* the stream keeps every frame up to the MaxPings-th ping; later pings
\* are emitted but not told apart from it
Emit(out, frame) == IF Len(out) < 2 + MaxPings THEN Append(out, frame) ELSE out

\* StreamingResponse(event_stream(), ...) (line 416)
SseOpen ==
    /\ Quiet
    /\ sse' = [SseIdle EXCEPT !.pc = "start"]
    /\ http' = HttpIdle
    /\ UNCHANGED <<SAMPLE_TASKS, ws, ws2, session>>

\* the first yield (lines 357-377)
SseServerInfo ==
    /\ sse.pc = "start"
    /\ sse' = [sse EXCEPT !.pc = "tools", !.out = Emit(@, SseYield("start"))]
    /\ UNCHANGED <<SAMPLE_TASKS, http, ws, ws2, session>>

\* the second yield (lines 380-388), then the loop starts to sleep
SseToolsChanged ==
    /\ sse.pc = "tools"
    /\ sse' = [sse EXCEPT !.pc = "sleep", !.out = Emit(@, SseYield("tools")),
                          !.clock = 0]
    /\ UNCHANGED <<SAMPLE_TASKS, http, ws, ws2, session>>

\* one time unit of asyncio.sleep(30) passes (line 392)
SseTick ==
    /\ sse.pc = "sleep"
    /\ sse.clock < PingInterval
    /\ sse' = [sse EXCEPT !.clock = @ + 1]
    /\ UNCHANGED <<SAMPLE_TASKS, http, ws, ws2, session>>

\* the sleep is over: the heartbeat is yielded and the loop sleeps again
\* (lines 393-400)
SsePing ==
    /\ sse.pc = "sleep"
    /\ sse.clock = PingInterval
    /\ sse' = [sse EXCEPT !.out = Emit(@, SseYield("sleep")), !.clock = 0,
                          !.pings = IF @ < MaxPings THEN @ + 1 ELSE @]
    /\ UNCHANGED <<SAMPLE_TASKS, http, ws, ws2, session>>

\* error_msg of the last except clause (lines 407-413)
error_msg(exc) ==
    [jsonrpc |-> "2.0", method |-> "notifications/error",
     params |-> [error |-> exc]]

\* What is raised inside the generator when the peer goes away, by the
\* place of the generator: nothing before it has run; at asyncio.sleep the
\* task's CancelledError; while it is suspended at a yield, either that or
\* the GeneratorExit of the generator being closed.
CancelRaises(pc) ==
    CASE pc = "start" -> {"none"}
      [] pc = "tools" -> {"GeneratorExit", "CancelledError"}
      [] OTHER        -> {"CancelledError"}

\* the except clauses with CancelledError handled like any Exception
event_stream_except_any(exc) ==
    IF exc \in {"none", "GeneratorExit"} THEN <<>>
    ELSE <<SseFrame(error_msg(exc))>>

\* the except clauses of event_stream (lines 402-414): the frames yielded
\* when exc is raised in the try block. CancelledError returns;
\* GeneratorExit is no Exception and leaves the generator; an Exception
\* yields error_msg.
event_stream_except(exc) ==
    IF exc \in {"none", "GeneratorExit", "CancelledError"} THEN <<>>
    ELSE <<SseFrame(error_msg(exc))>>

\* the peer goes away and the generator ends. Nothing else raises inside
\* the try block: handle_list_tools returns a literal and json.dumps is
\* given plain mappings.
SseCancel ==
    /\ sse.pc \in {"start", "tools", "sleep"}
    /\ \E exc \in CancelRaises(sse.pc) :
          sse' = [sse EXCEPT !.pc = "closed",
                             !.out = @ \o event_stream_except(exc)]
    /\ UNCHANGED <<SAMPLE_TASKS, http, ws, ws2, session>>

\* the generator is gone; the client goes on
SseReturn ==
    /\ sse.pc = "closed"
    /\ sse' = SseIdle
    /\ UNCHANGED <<SAMPLE_TASKS, http, ws, ws2, session>>

---------------------------------------------------------------------------
(* mcp-server.py: QueuingSession *)

\* the requests that arrive on the session, by method
SessionMethods == {"initialize", "tools/list", "tools/call"}

\* a wait() that returns whether or not the event is set
wait_returns_at_once(s) == TRUE

\* await self._initialized.wait() returns (line 12)
wait_returns(s) == s.initialized

\* seq without its i-th element
Without(seq, i) == SubSeq(seq, 1, i - 1) \o SubSeq(seq, i + 1, Len(seq))

\* the session calls _received_request(responder) for a request that has
\* arrived: the coroutine starts and reaches the wait (lines 10-12)
SessionRequest(method) ==
    /\ session.received < MaxRequests
    /\ session' = [session EXCEPT
                      !.held = Append(@, [method |-> method,
                                          n |-> session.received + 1,
                                          early |-> ~session.initialized]),
                      !.received = @ + 1]
    /\ UNCHANGED <<SAMPLE_TASKS, http, ws, sse, ws2>>

\* the wait of one held request returns and the request is given to
\* super()._received_request (line 13)
SessionPass ==
    /\ \E i \in 1..Len(session.held) :
          /\ wait_returns(session)
          /\ session' = [session EXCEPT !.held = Without(@, i),
                                        !.passed = Append(@, session.held[i])]
    /\ UNCHANGED <<SAMPLE_TASKS, http, ws, sse, ws2>>

\* the peer's notification that ends the handshake arrives: notifications
\* do not go through _received_request, and the event is set ("until
\* initialise/notifications is completed", line 11)
SessionInitialized ==
    /\ ~session.initialized
    /\ session' = [session EXCEPT !.initialized = TRUE]
    /\ UNCHANGED <<SAMPLE_TASKS, http, ws, sse, ws2>>

---------------------------------------------------------------------------
(* Several connections at once: two WebSocket connections, a push stream *)
(* and unary requests, their steps interleaved in every order             *)

\* the frames and bodies sent while several connections are open: a
\* get_tasklist call for all the categories, which runs the loop over
\* SAMPLE_TASKS, one for a single category, and a JSON value that is no
\* mapping, which ends a loop
ConcFrames ==
    { Body("json", Envelope(PyStr("tools/call"), PyInt(1),
                            CallParams(PyStr("get_tasklist"), Category(PyStr("ALL"))))),
      Body("json", PyList) }

ConcBodies ==
    { Body("json", Envelope(PyStr("tools/call"), PyInt(2),
                            CallParams(PyStr("get_tasklist"), Category(PyStr("Work"))))),
      Body("json", Envelope(PyStr("tools/call"), PyInt(1),
                            CallParams(PyStr("get_tasklist"), Category(PyStr("ALL"))))) }

Conns == {1, 2}

Conn(c) == IF c = 1 THEN ws ELSE ws2

\* connection c becomes w, the other one stays
SetConn(c, w) ==
    IF c = 1 THEN ws' = w /\ ws2' = ws2 ELSE ws2' = w /\ ws' = ws

\* a POST on one of the two unary endpoints
ConcPost(endpoint, body) ==
    /\ http' = Posted(endpoint, body)
    /\ SAMPLE_TASKS' = tasks_after(SAMPLE_TASKS, body)
    /\ UNCHANGED <<ws, sse, ws2, session>>

\* websocket.accept() (line 573)
ConcAccept(c) ==
    /\ Conn(c).pc = "idle"
    /\ SetConn(c, [WsIdle EXCEPT !.pc = "receive"])
    /\ UNCHANGED <<SAMPLE_TASKS, http, sse, session>>

\* receive_text() returns a frame (line 579)
ConcReceive(c, data) ==
    /\ Conn(c).pc = "receive"
    /\ Len(Conn(c).recv) < MaxConcMsgs
    /\ SetConn(c, Received(Conn(c), data))
    /\ UNCHANGED <<SAMPLE_TASKS, http, sse, session>>

\* the rest of the pass (lines 582-662)
ConcHandle(c) ==
    /\ Conn(c).pc = "handle"
    /\ SetConn(c, Passed(Conn(c), SAMPLE_TASKS))
    /\ SAMPLE_TASKS' = tasks_after(SAMPLE_TASKS, Conn(c).data)
    /\ UNCHANGED <<http, sse, session>>

\* receive_text() raises WebSocketDisconnect (lines 664-665)
ConcDisconnect(c) ==
    /\ Conn(c).pc = "receive"
    /\ SetConn(c, Disconnected(Conn(c)))
    /\ UNCHANGED <<SAMPLE_TASKS, http, sse, session>>

\* the handler has returned; its connection is gone
ConcReturn(c) ==
    /\ Conn(c).pc = "closed"
    /\ SetConn(c, WsIdle)
    /\ UNCHANGED <<SAMPLE_TASKS, http, sse, session>>

\* StreamingResponse(event_stream(), ...) (line 416)
ConcSseOpen ==
    /\ sse.pc = "idle"
    /\ sse' = [SseIdle EXCEPT !.pc = "start"]
    /\ UNCHANGED <<SAMPLE_TASKS, http, ws, ws2, session>>

\* asyncio.sleep(30) runs to its end (line 392), taken as one step
ConcSseSleep ==
    /\ sse.pc = "sleep"
    /\ sse.clock < PingInterval
    /\ sse' = [sse EXCEPT !.clock = PingInterval]
    /\ UNCHANGED <<SAMPLE_TASKS, http, ws, ws2, session>>

---------------------------------------------------------------------------
(* Specifications *)

Next ==
    \/ \E endpoint \in {"/mcp/sse", "/mcp"}, body \in Bodies : UnaryPost(endpoint, body)
    \/ ListTools
    \/ \E category \in PathCategories : GetTasks(category)
    \/ WsAccept
    \/ \E data \in Frames : WsReceive(data)
    \/ WsHandle
    \/ WsDisconnect
    \/ WsReturn
    \/ SseOpen
    \/ SseServerInfo
    \/ SseToolsChanged
    \/ SseTick
    \/ SsePing
    \/ SseCancel
    \/ SseReturn

Spec == Init /\ [][Next]_vars

\* the steps of the generator, which the event loop takes whenever the
\* stream is open: it resumes the generator and lets the timer expire
SseStep == SseServerInfo \/ SseToolsChanged \/ SseTick \/ SsePing

FairSpec == Spec /\ WF_vars(SseStep)

---------------------------------------------------------------------------
(* Properties *)

Endpoints == {"/mcp/sse", "/mcp"}

\* a unary exchange has been served
Served == http.endpoint \in Endpoints

\* the loop has dealt with the frame ws.data: it is back at receive_text(),
\* or it has ended
Handled == ws.pc \in {"receive", "closed"} /\ Len(ws.recv) > 0

\* the params of an envelope, as the handlers read them
ParamsOf(body) ==
    IF HasKey(body, "params") THEN body.value.v["params"] ELSE PyDict(<<>>)

\* the tool name of a tools/call envelope whose params are a mapping
NameOf(body) ==
    IF "name" \in DOMAIN ParamsOf(body).v THEN ParamsOf(body).v["name"] ELSE None

IsResult(e) == "result" \in DOMAIN e /\ "error" \notin DOMAIN e

IsError(e) == "error" \in DOMAIN e /\ "result" \notin DOMAIN e

\* e answers a request that carried id
Answers(e, id) == e.id = id /\ (IsResult(e) \/ IsError(e))

\* the envelopes returned to the peer for the body it sent
HttpEnvelopes == IF http.resp.kind = "json" THEN <<http.resp.body>> ELSE <<>>

\* C1: every inbound envelope that carries an id gets exactly one response
\* envelope, with result or error and with the id of the request, on POST
\* /mcp/sse, POST /mcp and the WebSocket, for every method and every shape
\* of params.
C1_EveryRequestAnswered ==
    /\ (Served /\ HasKey(http.body, "id")) =>
          /\ Len(HttpEnvelopes) = 1
          /\ Answers(HttpEnvelopes[1], IdOf(http.body))
    /\ (Handled /\ HasKey(ws.data, "id")) =>
          /\ Len(ws.out) = 1
          /\ Answers(ws.out[1], IdOf(ws.data))

\* C2: an inbound envelope without id never causes a response envelope,
\* whatever its method, on the three request-carrying transports.
C2_NotificationsUnanswered ==
    /\ (Served /\ IsEnvelope(http.body) /\ ~HasKey(http.body, "id")) =>
          HttpEnvelopes = <<>>
    /\ (Handled /\ IsEnvelope(ws.data) /\ ~HasKey(ws.data, "id")) =>
          ws.out = <<>>

\* C3: an envelope with method notifications/initialized never produces a
\* response body, on any of the three transports.
C3_InitializedNotificationSilent ==
    /\ (Served /\ MethodOf(http.body) = PyStr("notifications/initialized")) =>
          HttpEnvelopes = <<>>
    /\ (Handled /\ MethodOf(ws.data) = PyStr("notifications/initialized")) =>
          ws.out = <<>>

\* C4: handle_call_tool and handle_list_tools are invoked for a tools/call
\* or tools/list envelope only after an initialize exchange has completed
\* on the session (the WebSocket connection, the run of unary exchanges).
C4_HandshakeFirst ==
    /\ (Served /\ http.resp.calls # <<>>) => http.handshake
    /\ (Handled /\ ws.calls # <<>>) => ws.handshake

\* the case of C5: a tools/call whose params carry a name outside the
\* catalog, or no name
UnknownToolCall(body) ==
    /\ MethodOf(body) = PyStr("tools/call")
    /\ ParamsOf(body).t = "dict"
    /\ NameOf(body) \notin {PyStr("get_tasklist"), PyStr("test_slack")}

\* e is the InternalError answer to a request that carried id
IsToolError(e, id) == e.id = id /\ IsError(e) /\ e.error.code = -32603

\* C5: a tools/call whose tool name is not in the catalog (an absent name
\* included) is answered, on each transport, by an envelope with an error
\* of code -32603, no result and the id of the request; no fault leaves the
\* handler: the unary status is 200 and the WebSocket loop goes on.
C5_UnknownToolIsErrorEnvelope ==
    /\ (Served /\ UnknownToolCall(http.body)) =>
          /\ http.resp.status = 200
          /\ Len(HttpEnvelopes) = 1
          /\ IsToolError(HttpEnvelopes[1], IdOf(http.body))
    /\ (Handled /\ UnknownToolCall(ws.data)) =>
          /\ Len(ws.out) = 1
          /\ IsToolError(ws.out[1], IdOf(ws.data))

\* C5, reached: the WebSocket loop has answered a call of the unknown tool
\* nope that carried the id 2, and is receiving again.
C5_Witness ==
    /\ ws.pc = "receive"
    /\ UnknownToolCall(ws.data)
    /\ NameOf(ws.data) = PyStr("nope")
    /\ IdOf(ws.data) = PyInt(2)
    /\ Len(ws.out) = 1

\* the case of C6: an envelope whose method is none of the four
\* recognized ones, or is absent
UnknownMethod(body) ==
    /\ IsEnvelope(body)
    /\ MethodOf(body) \notin {PyStr("initialize"), PyStr("tools/list"),
                              PyStr("tools/call"), PyStr("notifications/initialized")}

Contains(message, piece) == \E j \in 1..Len(message) : message[j] = piece

\* e is the MethodNotFound answer that names the method of body
IsMethodNotFound(e, body) ==
    /\ e.id = IdOf(body)
    /\ IsError(e)
    /\ e.error.code = -32601
    /\ Contains(e.error.message, Format(MethodOf(body)))

\* the pass of the WebSocket loop over an unknown method leaves the task
\* table and the handshake record of the connection as they were
UnknownMethodKeepsState ==
    (ws.pc = "handle" /\ UnknownMethod(ws.data) /\ ws'.pc # "handle") =>
        /\ SAMPLE_TASKS' = SAMPLE_TASKS
        /\ ws'.handshake = ws.handshake
        /\ ws'.pc = "receive"

\* C6: a request whose method is outside initialize, tools/list, tools/call,
\* notifications/initialized (an absent method included) yields, on each
\* transport, an error envelope with code -32601, a message that contains
\* the method, and the id of the request; the dispatch changes no state.
C6_UnknownMethodIsMethodNotFound ==
    /\ [](/\ (Served /\ UnknownMethod(http.body)) =>
                /\ Len(HttpEnvelopes) = 1
                /\ IsMethodNotFound(HttpEnvelopes[1], http.body)
                /\ SAMPLE_TASKS = InitialTasks
          /\ (Handled /\ UnknownMethod(ws.data)) =>
                /\ Len(ws.out) = 1
                /\ IsMethodNotFound(ws.out[1], ws.data)
                /\ SAMPLE_TASKS = InitialTasks)
    /\ [][UnknownMethodKeepsState]_vars

\* C6, reached: after a handshake, the WebSocket loop has answered a
\* request that carries an id and no method, and is receiving again.
C6_Witness ==
    /\ ws.pc = "receive"
    /\ ws.handshake
    /\ UnknownMethod(ws.data)
    /\ HasKey(ws.data, "id")
    /\ ~HasKey(ws.data, "method")
    /\ Len(ws.out) = 1

\* a non-empty body that cannot be read as an envelope
Unreadable(body) == body.kind # "empty" /\ ~IsEnvelope(body)

\* C7: on POST /mcp and POST /mcp/sse a non-empty body that cannot be read
\* as an envelope (not JSON, not decodable, JSON that is no mapping) yields
\* the envelope with error code -32700 and id null, never a fault.
C7_UnreadableIsParseError ==
    (Served /\ Unreadable(http.body)) =>
        /\ http.resp.kind = "json"
        /\ http.resp.body = ParseError

\* C8: on POST /mcp/sse and POST /mcp an empty body is answered with
\* status 400 and no envelope, never with a ParseError envelope.
C8_EmptyBodyIsBadRequest ==
    (Served /\ http.body.kind = "empty") =>
        /\ http.resp.status = 400
        /\ HttpEnvelopes = <<>>

\* the ids of a sequence of ids, None left out
WithId(ids) == LET Given(id) == id # None IN SelectSeq(ids, Given)

\* C9: within one WebSocket connection the response to a message is sent
\* before the next message is received, and the ids of the responses sent
\* are the ids of the requests received, in arrival order, for any sequence
\* of inbound messages.
C9_ResponsesFollowRequests ==
    /\ ws.pc = "handle" => Len(ws.recv) = Len(ws.sent) + 1
    /\ ws.pc # "handle" => WithId(ws.sent) = WithId(ws.recv)

\* s is the front part of r
IsPrefix(s, r) == Len(s) <= Len(r) /\ \A j \in 1..Len(s) : s[j] = r[j]

\* The order alone: what has been sent answers, in order, the front part
\* of what has been received, and at most one message is unanswered.
WsOrder ==
    /\ IsPrefix(ws.sent, ws.recv)
    /\ Len(ws.recv) - Len(ws.sent) <= 1

\* the envelopes emitted so far on the push stream
Emitted == [j \in 1..Len(sse.out) |-> EnvelopeOf(sse.out[j])]

\* the emitted envelopes have the shape C10 describes
PushShape ==
    /\ \A j \in 1..Len(Emitted) : "id" \notin DOMAIN Emitted[j]
    /\ Len(Emitted) >= 1 =>
          /\ Emitted[1].method = "notifications/initialized"
          /\ Emitted[1].params.protocolVersion = "2024-11-05"
          /\ Emitted[1].params.capabilities = [tools |-> ListChanged]
          /\ Emitted[1].params.serverInfo =
                [name |-> "mcp-sse-server", version |-> "0.1.0"]
    /\ Len(Emitted) >= 2 =>
          /\ Emitted[2].method = "notifications/tools_changed"
          /\ Emitted[2].params.tools = Dump(handle_list_tools)
    /\ \A j \in 3..Len(Emitted) : Emitted[j].method = "notifications/ping"
    /\ sse.pings > 0 => Len(Emitted) = 2 + sse.pings
    /\ sse.pc = "sleep" => Len(Emitted) >= 2

\* a liveness envelope is emitted only when a whole interval has passed
\* since the envelope before it
PingOnTimer ==
    (sse.pc = "sleep" /\ sse'.pc = "sleep" /\ sse'.clock = 0) =>
        sse.clock = PingInterval

\* an open stream emits its two opening envelopes, and whenever it waits,
\* the wait ends with a liveness envelope unless the stream is closed
PushProgress ==
    /\ (sse.pc = "start") ~> (sse.pc = "closed" \/ Len(sse.out) >= 2)
    /\ (sse.pc = "sleep" /\ sse.clock > 0) ~> (sse.pc # "sleep" \/ sse.clock = 0)

\* C10: a push stream emits first notifications/initialized with protocol
\* version, capabilities and server identity, second
\* notifications/tools_changed with the catalog of handle_list_tools, and
\* after that only notifications/ping, one per timer interval and without
\* end while the stream is open; no envelope carries an id.
C10_PushSequence == []PushShape /\ [][PingOnTimer]_vars /\ PushProgress

\* C10, reached: the stream has emitted its two opening envelopes and two
\* liveness envelopes and waits again.
C10_Witness ==
    /\ sse.pc = "sleep"
    /\ sse.pings >= 2
    /\ Len(sse.out) >= 4
    /\ sse.clock = PingInterval

\* the stream is open: the generator has not ended
SseIsOpen(pc) == pc \in {"start", "tools", "sleep"}

\* the step that ends an open stream yields nothing
CancelYieldsNothing ==
    (SseIsOpen(sse.pc) /\ sse'.pc = "closed") => sse'.out = sse.out

\* an ended generator takes no further step of its own: it is only
\* discarded
EndedStaysEnded == (sse.pc = "closed") => sse'.pc = "idle"

NoErrorEnvelope ==
    \A j \in 1..Len(Emitted) : Emitted[j].method # "notifications/error"

\* C11: a push stream cancelled before the first envelope, between the two
\* opening envelopes or during the periodic wait emits nothing after the
\* cancellation, ends, and emits no notifications/error envelope.
C11_CancelIsSilent ==
    /\ [][CancelYieldsNothing]_vars
    /\ [][EndedStaysEnded]_vars
    /\ []NoErrorEnvelope

\* C11, reached: a stream cancelled during the periodic wait, after its two
\* opening envelopes and one heartbeat.
C11_Witness ==
    /\ sse.pc = "closed"
    /\ sse.pings = 1
    /\ sse.clock > 0
    /\ Len(sse.out) = 3

---------------------------------------------------------------------------
(* Initialize twice *)

IsInitialize(body) == IsEnvelope(body) /\ MethodOf(body) = PyStr("initialize")

\* two envelopes that differ in nothing but the echoed id
SameButId(e1, e2) == [e1 EXCEPT !.id = None] = [e2 EXCEPT !.id = None]

\* e is the success response to the initialize request body
InitializeSuccess(e, body) ==
    /\ IsResult(e)
    /\ e.id = IdOf(body)
    /\ "protocolVersion" \in DOMAIN e.result

\* a POST of initialize right after a POST of initialize on the same
\* endpoint
TwoInitializePosts ==
    (/\ http.endpoint \in Endpoints
     /\ http'.endpoint = http.endpoint
     /\ IsInitialize(http.body)
     /\ IsInitialize(http'.body))
    => /\ http.resp.kind = "json"
       /\ http'.resp.kind = "json"
       /\ InitializeSuccess(http.resp.body, http.body)
       /\ InitializeSuccess(http'.resp.body, http'.body)
       /\ SameButId(http.resp.body, http'.resp.body)
       /\ SAMPLE_TASKS' = SAMPLE_TASKS

\* the pass of the WebSocket loop on an initialize frame received right
\* after an initialize frame
TwoInitializeFrames ==
    (/\ ws.pc = "handle"
     /\ ws'.pc # "handle"
     /\ IsInitialize(ws.prev.data)
     /\ IsInitialize(ws.data))
    => /\ ws'.pc = "receive"
       /\ Len(ws.prev.out) = 1
       /\ Len(ws'.out) = 1
       /\ InitializeSuccess(ws.prev.out[1], ws.prev.data)
       /\ InitializeSuccess(ws'.out[1], ws.data)
       /\ SameButId(ws.prev.out[1], ws'.out[1])
       /\ SAMPLE_TASKS' = SAMPLE_TASKS

\* C12: two initialize requests in a row on one transport (one endpoint, one
\* WebSocket connection) get two success responses that differ only in the
\* echoed id, and the second leaves the server's state as the first left it.
C12_InitializeIdempotent ==
    /\ [][TwoInitializePosts]_vars
    /\ [][TwoInitializeFrames]_vars

\* C12, reached: a connection that has answered two initialize frames in a
\* row, carrying different ids.
C12_Witness ==
    /\ ws.pc = "receive"
    /\ IsInitialize(ws.prev.data)
    /\ IsInitialize(ws.data)
    /\ IdOf(ws.prev.data) # IdOf(ws.data)
    /\ Len(ws.out) = 1
    /\ IsResult(ws.out[1])

---------------------------------------------------------------------------
(* get_tasklist *)

\* the categories that SAMPLE_TASKS stores
StoredCategories == {"work", "personal", "learning", "home"}

\* a returned task without the category it was given
Stripped(task) == [k \in DOMAIN task \ {"category"} |-> task[k]]

RECURSIVE TotalOf(_, _)
\* the number of tasks stored under the categories cats
TotalOf(tasks, cats) ==
    IF cats = {} THEN 0
    ELSE LET c == CHOOSE x \in cats : TRUE
         IN  Len(tasks[c]) + TotalOf(tasks, cats \ {c})

\* the tasks of d are those stored under c, in the stored order, each
\* carrying c
ExactlyCategory(d, c) ==
    /\ Len(d.tasks) = Len(SAMPLE_TASKS[c])
    /\ \A j \in 1..Len(d.tasks) :
          /\ d.tasks[j].category = c
          /\ Stripped(d.tasks[j]) = SAMPLE_TASKS[c][j]

\* the tasks of d are the stored tasks of all categories, each once and
\* each carrying the category it is stored under
UnionOfAll(d) ==
    /\ \A i \in 1..Len(d.tasks) :
          /\ d.tasks[i].category \in StoredCategories
          /\ \E j \in 1..Len(SAMPLE_TASKS[d.tasks[i].category]) :
                SAMPLE_TASKS[d.tasks[i].category][j] = Stripped(d.tasks[i])
    /\ \A c \in StoredCategories :
          \A j \in 1..Len(SAMPLE_TASKS[c]) :
             \E i \in 1..Len(d.tasks) :
                /\ d.tasks[i].category = c
                /\ Stripped(d.tasks[i]) = SAMPLE_TASKS[c][j]
    /\ Len(d.tasks) = TotalOf(SAMPLE_TASKS, StoredCategories)

\* d is what get_tasklist is to return for the category d names
TasklistExact(d) ==
    /\ d.total_tasks = Len(d.tasks)
    /\ IF d.category = "all" THEN UnionOfAll(d)
       ELSE d.category \in StoredCategories /\ ExactlyCategory(d, d.category)

\* a tools/call of get_tasklist
IsTasklistCall(body) ==
    /\ MethodOf(body) = PyStr("tools/call")
    /\ ParamsOf(body).t = "dict"
    /\ NameOf(body) = PyStr("get_tasklist")

\* the document inside the one content element of a get_tasklist result
TasklistOf(e) == JsonLoadsText(e.result.content[1].text)

\* GET /tasks/{category} has been served
TasksServed == http.endpoint = "/tasks/{category}"

\* C13: get_tasklist returns, for each of work, personal, learning, home,
\* exactly the tasks stored under it in the stored order, each with that
\* category; for all, the tasks of every category, each with its source
\* category; total_tasks is the number of tasks returned, for all the sum
\* of the categories' counts.
C13_TasklistExact ==
    /\ (TasksServed /\ http.body.value.v \in StoredCategories \cup {"all"}) =>
          /\ http.resp.status = 200
          /\ http.resp.body.category = http.body.value.v
          /\ TasklistExact(http.resp.body)
    /\ (Served /\ IsTasklistCall(http.body) /\ http.resp.kind = "json"
               /\ IsResult(http.resp.body)) =>
          TasklistExact(TasklistOf(http.resp.body))
    /\ (Handled /\ IsTasklistCall(ws.data) /\ Len(ws.out) = 1
                /\ IsResult(ws.out[1])) =>
          TasklistExact(TasklistOf(ws.out[1]))

\* C13, reached: GET /tasks/all has returned more tasks than one category
\* holds.
C13_Witness ==
    /\ TasksServed
    /\ http.body.value.v = "all"
    /\ http.resp.status = 200
    /\ http.resp.body.total_tasks > Len(SAMPLE_TASKS["work"])

---------------------------------------------------------------------------
(* Categories that get_tasklist rejects *)

AcceptedCategories == StoredCategories \cup {"all"}

\* the message names every accepted category
ListsAccepted(message) == \A c \in AcceptedCategories : Contains(message, c)

\* the arguments of a tools/call envelope, as the handlers read them
ArgumentsOf(body) ==
    IF "arguments" \in DOMAIN ParamsOf(body).v
    THEN ParamsOf(body).v["arguments"] ELSE PyDict(<<>>)

\* a tools/call of get_tasklist whose arguments carry a category string
HasCategoryString(body) ==
    /\ IsTasklistCall(body)
    /\ ArgumentsOf(body).t = "dict"
    /\ "category" \in DOMAIN ArgumentsOf(body).v
    /\ ArgumentsOf(body).v["category"].t = "str"

CategoryOf(body) == ArgumentsOf(body).v["category"].v

\* e is the error envelope for id whose message names every accepted category
IsCategoryError(e, id) == IsError(e) /\ e.id = id /\ ListsAccepted(e.error.message)

\* get_tasklist fails on the categories of the set rejected: GET
\* /tasks/{category} gives 400 with the message, tools/call gives the error
\* envelope with the id of the request
CategoryRejected(rejected) ==
    /\ (TasksServed /\ http.body.value.v \in rejected) =>
          /\ http.resp.status = 400
          /\ ListsAccepted(http.resp.body.detail)
    /\ (Served /\ HasCategoryString(http.body)
               /\ CategoryOf(http.body) \in rejected) =>
          /\ Len(HttpEnvelopes) = 1
          /\ IsCategoryError(HttpEnvelopes[1], IdOf(http.body))
    /\ (Handled /\ HasCategoryString(ws.data)
                /\ CategoryOf(ws.data) \in rejected) =>
          /\ Len(ws.out) = 1
          /\ IsCategoryError(ws.out[1], IdOf(ws.data))

\* C14: for every category string that is not one of work, personal,
\* learning, home, all, get_tasklist fails with an error whose message
\* lists all accepted values, all included; over tools/call the failure is
\* an error envelope with the id of the request.
C14_UnlistedCategoryFails ==
    CategoryRejected(PathCategories \ AcceptedCategories)

\* C14, amended: the same for every category string whose lower-case form
\* is not one of work, personal, learning, home, all.
C14_UnlistedLowerCaseFails ==
    CategoryRejected({c \in PathCategories : Lower(c) \notin AcceptedCategories})

\* C14, reached: a tools/call of get_tasklist with category bogus has been
\* answered on the WebSocket by an error envelope.
C14_Witness ==
    /\ Handled
    /\ HasCategoryString(ws.data)
    /\ CategoryOf(ws.data) = "bogus"
    /\ Len(ws.out) = 1
    /\ IsError(ws.out[1])

---------------------------------------------------------------------------
(* The catalog *)

IsToolsList(body) == IsEnvelope(body) /\ MethodOf(body) = PyStr("tools/list")

\* the name, description and inputSchema of the entries of a catalog, in
\* its order
Entries(catalog) ==
    [j \in 1..Len(catalog) |->
        [name |-> catalog[j].name, description |-> catalog[j].description,
         inputSchema |-> catalog[j].inputSchema]]

\* the catalog that GET /tools returns
ListedCatalog == Entries(list_tools.body.tools)

\* e is a tools/list result with the catalog of GET /tools
HasListedCatalog(e) == IsResult(e) /\ Entries(e.result.tools) = ListedCatalog

\* C15: the catalog returned by tools/list on POST /mcp, POST /mcp/sse and
\* the WebSocket and the catalog returned by GET /tools hold the same tool
\* names in the same order, each with the same description and inputSchema.
C15_OneCatalog ==
    /\ (http.endpoint = "/tools") =>
          /\ http.resp.status = 200
          /\ Entries(http.resp.body.tools) = ListedCatalog
    /\ (Served /\ IsToolsList(http.body)) =>
          /\ Len(HttpEnvelopes) = 1
          /\ HasListedCatalog(HttpEnvelopes[1])
    /\ (Handled /\ IsToolsList(ws.data)) =>
          /\ Len(ws.out) = 1
          /\ HasListedCatalog(ws.out[1])

\* C15, reached: POST /mcp has answered tools/list with a catalog as long as
\* the one of handle_list_tools.
C15_Witness ==
    /\ http.endpoint = "/mcp"
    /\ IsToolsList(http.body)
    /\ Len(HttpEnvelopes) = 1
    /\ Len(HttpEnvelopes[1].result.tools) = Len(handle_list_tools)

---------------------------------------------------------------------------
(* get_tasklist without category *)

\* a tools/call of get_tasklist whose arguments are a mapping without the
\* key category
LacksCategory(body) ==
    /\ IsTasklistCall(body)
    /\ ArgumentsOf(body).t = "dict"
    /\ "category" \notin DOMAIN ArgumentsOf(body).v

\* e is an error envelope for id whose message names the key category and
\* whose code is not the one of InternalError
IsInvalidParams(e, id) ==
    /\ IsError(e)
    /\ e.id = id
    /\ Contains(e.error.message, "Missing required argument: category")
    /\ e.error.code # -32603

\* C16: a tools/call of get_tasklist whose arguments lack category fails
\* with an error that names the key category and whose code tells it from
\* an InternalError failure such as an unknown tool.
C16_MissingCategoryIsInvalidParams ==
    /\ (Served /\ LacksCategory(http.body)) =>
          /\ Len(HttpEnvelopes) = 1
          /\ IsInvalidParams(HttpEnvelopes[1], IdOf(http.body))
    /\ (Handled /\ LacksCategory(ws.data)) =>
          /\ Len(ws.out) = 1
          /\ IsInvalidParams(ws.out[1], IdOf(ws.data))

---------------------------------------------------------------------------
(* The shape of response envelopes *)

IsToolsCall(body) == IsEnvelope(body) /\ MethodOf(body) = PyStr("tools/call")

\* an error member with a code and a message
ErrorPopulated(e) == {"code", "message"} \subseteq DOMAIN e.error

\* a result member whose content is a sequence of typed blocks
ContentPopulated(e) ==
    /\ "content" \in DOMAIN e.result
    /\ \A j \in 1..Len(e.result.content) :
          {"type", "text"} \subseteq DOMAIN e.result.content[j]

\* e has exactly one of result and error, and its error is populated
WellFormedResponse(e) ==
    /\ IsResult(e) \/ IsError(e)
    /\ IsError(e) => ErrorPopulated(e)

\* e is a whole answer to the envelope body
WellFormedFor(e, body) ==
    /\ WellFormedResponse(e)
    /\ (IsToolsCall(body) /\ IsResult(e)) => ContentPopulated(e)

\* C17: every response envelope on any transport, after any sequence of
\* requests, has exactly one of result and error; the response to a
\* tools/call holds a result.content sequence of typed blocks or an error
\* with code and message.
C17_ResultXorError ==
    /\ Served =>
          \A j \in 1..Len(HttpEnvelopes) : WellFormedFor(HttpEnvelopes[j], http.body)
    /\ \A j \in 1..Len(ws.out) : WellFormedFor(ws.out[j], ws.data)
    /\ \A j \in 1..Len(ws.prev.out) : WellFormedFor(ws.prev.out[j], ws.prev.data)

\* C17, reached: the WebSocket has answered a tools/call with a result of
\* one content block, after an earlier tools/call that it answered with an
\* error.
C17_Witness ==
    /\ Handled
    /\ IsToolsCall(ws.data)
    /\ IsToolsCall(ws.prev.data)
    /\ Len(ws.out) = 1
    /\ IsResult(ws.out[1])
    /\ Len(ws.out[1].result.content) = 1
    /\ Len(ws.prev.out) = 1
    /\ IsError(ws.prev.out[1])

---------------------------------------------------------------------------
(* The three bindings side by side *)

\* a request envelope: a method string, an id, and params that are absent
\* or a mapping; the notification of the handshake is none
WellFormedRequest(body) ==
    /\ HasKey(body, "method")
    /\ MethodOf(body).t = "str"
    /\ MethodOf(body) # PyStr("notifications/initialized")
    /\ HasKey(body, "id")
    /\ ParamsOf(body).t = "dict"

\* the envelopes in what an HTTP handler returns
EnvelopesOf(resp) == IF resp.kind = "json" THEN <<resp.body>> ELSE <<>>

\* the envelopes that the POST endpoint returns for body
PostAnswer(endpoint, body) == EnvelopesOf(Endpoint(endpoint, SAMPLE_TASKS, body))

\* C18: for every well-formed request envelope (initialize, tools/list,
\* tools/call, unknown method) POST /mcp, POST /mcp/sse and the WebSocket
\* produce the same response envelope; initialize declares the same
\* capabilities, protocol version and server identity on all three.
C18_BindingsAgree ==
    /\ (Served /\ WellFormedRequest(http.body)) =>
          \A endpoint \in Endpoints : HttpEnvelopes = PostAnswer(endpoint, http.body)
    /\ (Handled /\ WellFormedRequest(ws.data)) =>
          \A endpoint \in Endpoints : ws.out = PostAnswer(endpoint, ws.data)

---------------------------------------------------------------------------
(* The unary endpoints keep nothing *)

\* what the endpoint returns for body on a server that has served nothing
FreshAnswer(endpoint, body) == Endpoint(endpoint, InitialTasks, body)

\* the same body on the same endpoint twice in a row gets the same response
RepeatedPost ==
    (/\ http.endpoint \in Endpoints
     /\ http'.endpoint = http.endpoint
     /\ http'.body = http.body)
    => http'.resp = http.resp

\* C19: the response to a POST /mcp or POST /mcp/sse request is a function
\* of the body alone: whatever was requested earlier, on this or another
\* connection, it is the response of a server that has served nothing.
C19_UnaryKeepsNoState ==
    /\ [](Served => http.resp = FreshAnswer(http.endpoint, http.body))
    /\ [][RepeatedPost]_vars

\* C19, reached: a tools/call answered with a result by POST /mcp in a run
\* whose earlier exchanges include an initialize.
C19_Witness ==
    /\ http.endpoint = "/mcp"
    /\ http.handshake
    /\ IsToolsCall(http.body)
    /\ http.resp.kind = "json"
    /\ IsResult(http.resp.body)

---------------------------------------------------------------------------
(* The WebSocket loop after an error *)

\* a frame that is not JSON text
NotJson(data) == data.kind \in {"text", "empty"}

\* a tools/call with params absent or a mapping whose tool raises
ToolFails(body) ==
    /\ IsToolsCall(body)
    /\ ParamsOf(body).t = "dict"
    /\ handle_call_tool(SAMPLE_TASKS, NameOf(body), ArgumentsOf(body)).raised

\* the error code that the claim gives for the frame, 0 for other frames
RecoverableCode(data) ==
    IF NotJson(data) THEN -32700
    ELSE IF UnknownMethod(data) THEN -32601
    ELSE IF ToolFails(data) THEN -32603
    ELSE 0

Recoverable(data) == RecoverableCode(data) # 0

\* out is the one error envelope that answers the recoverable frame data
RecoveredInto(out, data) ==
    /\ Len(out) = 1
    /\ IsError(out[1])
    /\ out[1].error.code = RecoverableCode(data)
    /\ out[1].id = IdOf(data)

\* the pass on a recoverable frame sends its error envelope and goes back
\* to receive_text()
ErrorKeepsLoop ==
    (ws.pc = "handle" /\ ws'.pc # "handle" /\ Recoverable(ws.data))
    => /\ ws'.pc = "receive"
       /\ RecoveredInto(ws'.out, ws.data)

\* the pass on a well-formed request that follows a recoverable frame
\* sends what a new connection sends for it, an answer with its id, and
\* goes back to receive_text()
NextRequestAnswered ==
    (/\ ws.pc = "handle"
     /\ ws'.pc # "handle"
     /\ Len(ws.recv) > 1
     /\ Recoverable(ws.prev.data)
     /\ WellFormedRequest(ws.data))
    => /\ ws'.pc = "receive"
       /\ ws'.out = WsIteration(InitialTasks, ws.data).send
       /\ Len(ws'.out) = 1
       /\ Answers(ws'.out[1], IdOf(ws.data))

\* C20: a frame that is not JSON (answered -32700, id null), an unknown
\* method (-32601) and a failing tools/call (-32603) do not end the
\* WebSocket connection: the loop goes back to receiving, and the next
\* well-formed request on the connection is dispatched and answered.
C20_RecoverableErrorsKeepConnection ==
    /\ [][ErrorKeepsLoop]_vars
    /\ [][NextRequestAnswered]_vars

\* C20, reached: after a frame that is not JSON the connection has answered
\* tools/list with a result.
C20_Witness ==
    /\ ws.pc = "receive"
    /\ Len(ws.recv) > 1
    /\ NotJson(ws.prev.data)
    /\ RecoveredInto(ws.prev.out, ws.prev.data)
    /\ IsToolsList(ws.data)
    /\ WellFormedRequest(ws.data)
    /\ Len(ws.out) = 1
    /\ IsResult(ws.out[1])

---------------------------------------------------------------------------
(* The WebSocket loop after another fault *)

\* a frame of valid JSON whose handling raises something other than
\* JSONDecodeError: a value that is no mapping, or a tools/call whose params
\* are no mapping
OtherFault(data) ==
    /\ data.kind = "json"
    /\ \/ ~IsEnvelope(data)
       \/ IsToolsCall(data) /\ ParamsOf(data).t # "dict"

\* the pass on such a frame goes back to receive_text()
FaultKeepsLoop ==
    (ws.pc = "handle" /\ ws'.pc # "handle" /\ OtherFault(ws.data))
    => ws'.pc = "receive"

\* C21: a fault raised while the WebSocket loop handles one message, other
\* than a JSON decode failure or a peer disconnect, is caught and the loop
\* goes on to receive the next message: it never ends the receive loop.
C21_OtherFaultsKeepLoop == [][FaultKeepsLoop]_vars

---------------------------------------------------------------------------
(* QueuingSession *)

QueueNext ==
    \/ \E method \in SessionMethods : SessionRequest(method)
    \/ SessionPass
    \/ SessionInitialized

QueueSpec == Init /\ [][QueueNext]_vars

\* the event loop resumes a coroutine whose wait has returned; when the
\* peer sends its notification is the peer's choice
QueueFairSpec == QueueSpec /\ WF_vars(SessionPass)

\* the numbers of arrival of the requests in seq
Numbers(seq) == {seq[j].n : j \in 1..Len(seq)}

\* a request is given to the base handler only while the event is set
PassNeedsEvent == (session'.passed # session.passed) => session.initialized

\* every request that has arrived is held or has been passed on, once
NoneLost ==
    /\ Numbers(session.held) \cup Numbers(session.passed) = 1..session.received
    /\ Len(session.held) + Len(session.passed) = session.received

\* C24: a request received while the initialized event is unset is not
\* passed to the base handler until the event is set; once it is set every
\* held request is passed on: none is handled before initialization
\* completes and none is lost.
C24_GateHoldsUntilInitialized ==
    /\ [][PassNeedsEvent]_vars
    /\ [](~session.initialized => session.passed = <<>>)
    /\ []NoneLost
    /\ (session.initialized /\ session.held # <<>>) ~> (session.held = <<>>)

\* C24, reached: a tools/call that arrived before the event was set has
\* been passed to the base handler, and nothing is held.
C24_Witness ==
    /\ session.initialized
    /\ session.held = <<>>
    /\ \E j \in 1..Len(session.passed) :
          /\ session.passed[j].early
          /\ session.passed[j].method = "tools/call"

\* the first request of the session is an initialize, held at the gate of
\* a session that is not initialized
InitializeHeldFirst ==
    /\ ~session.initialized
    /\ \E i \in 1..Len(session.held) :
          session.held[i].n = 1 /\ session.held[i].method = "initialize"

\* the first request has been passed to the base handler and the session
\* is initialized
InitializeDone == session.initialized /\ 1 \in Numbers(session.passed)

\* C25: a session that is not initialized and receives initialize as its
\* first request eventually passes it to the base handler and reaches the
\* initialized state: the gate does not block the handshake.
C25_HandshakePassesGate == InitializeHeldFirst ~> InitializeDone

---------------------------------------------------------------------------
(* Read-only data *)

\* no stored task carries a category
NoStoredCategory ==
    \A c \in DOMAIN SAMPLE_TASKS :
       \A j \in 1..Len(SAMPLE_TASKS[c]) : "category" \notin DOMAIN SAMPLE_TASKS[c][j]

\* C26: after any sequence of tools/list, tools/call and GET
\* /tasks/{category} operations SAMPLE_TASKS is equal to its initial value
\* (no stored task gains a category, no entry is added, removed or
\* reordered), and the catalog that handle_list_tools gives is the one it
\* gave at start.
C26_ReadOnlyData ==
    /\ [](SAMPLE_TASKS = InitialTasks /\ NoStoredCategory)
    /\ [][SAMPLE_TASKS' = SAMPLE_TASKS]_vars
    /\ []((http.endpoint = "/tools") =>
             http.resp.body.tools = Dump(handle_list_tools))
    /\ []((Handled /\ IsToolsList(ws.data)) =>
             ws.out = <<ResultEnvelope(IdOf(ws.data),
                                       [tools |-> Dump(handle_list_tools)])>>)

\* C26, reached: the WebSocket has answered a get_tasklist call for all
\* the categories with a result, after an earlier get_tasklist call, and
\* the table is the initial one.
C26_Witness ==
    /\ Handled
    /\ HasCategoryString(ws.data)
    /\ Lower(CategoryOf(ws.data)) = "all"
    /\ IsTasklistCall(ws.prev.data)
    /\ Len(ws.out) = 1
    /\ IsResult(ws.out[1])
    /\ SAMPLE_TASKS = InitialTasks

---------------------------------------------------------------------------
(* Several connections at once *)

ConcNext ==
    \/ \E endpoint \in {"/mcp/sse", "/mcp"}, body \in ConcBodies : ConcPost(endpoint, body)
    \/ \E c \in Conns : ConcAccept(c)
    \/ \E c \in Conns, data \in ConcFrames : ConcReceive(c, data)
    \/ \E c \in Conns : ConcHandle(c)
    \/ \E c \in Conns : ConcDisconnect(c)
    \/ \E c \in Conns : ConcReturn(c)
    \/ ConcSseOpen
    \/ SseServerInfo
    \/ SseToolsChanged
    \/ ConcSseSleep
    \/ SsePing
    \/ SseCancel
    \/ SseReturn

ConcSpec == Init /\ [][ConcNext]_vars

\* what a connection that runs alone sends for the frame data
AloneAnswer(data) == WsIteration(InitialTasks, data).send

\* the step in which receive_text() raises on connection c
DisconnectStep(c) ==
    Conn(c).pc = "receive" /\ Conn(c)'.pc \notin {"receive", "handle"}

\* the disconnect ends the handler by a return and sends nothing
CleanDisconnect ==
    \A c \in Conns :
       DisconnectStep(c) =>
          /\ Conn(c)'.pc = "closed"
          /\ Conn(c)'.sent = Conn(c).sent
          /\ Conn(c)'.out = Conn(c).out

\* a handler that has ended sends nothing: its connection is only
\* discarded
SilentAfterClose ==
    \A c \in Conns :
       (Conn(c).pc = "closed") =>
          /\ Conn(c)'.pc \in {"closed", "idle"}
          /\ (Conn(c)'.pc = "closed") => Conn(c)' = Conn(c)

\* while a connection is closed, the pass of the other connection and a
\* POST are served as ever
OthersServed ==
    \A c \in Conns :
       (Conn(c).pc = "closed") =>
          /\ \A d \in Conns \ {c} :
                (Conn(d).pc = "handle" /\ Conn(d)'.pc # "handle") =>
                   /\ Conn(d)'.out = AloneAnswer(Conn(d).data)
                   /\ Conn(d)'.pc = IF WsIteration(InitialTasks, Conn(d).data).continue
                                    THEN "receive" ELSE "closed"
          /\ (http' # http) =>
                http'.resp = Endpoint(http'.endpoint, InitialTasks, http'.body)

\* C22: when the peer disconnects a WebSocket connection, its receive loop
\* ends without raising an error, no envelope is sent on it after the
\* disconnect, and other connections continue to be served.
C22_DisconnectIsClean ==
    /\ [][CleanDisconnect]_vars
    /\ [][SilentAfterClose]_vars
    /\ [][OthersServed]_vars

\* C22, reached: the first connection was disconnected after it had
\* answered a frame, and the second one has answered all its frames.
C22_Witness ==
    /\ ws.pc = "closed"
    /\ Len(ws.out) = 1
    /\ ws2.pc = "receive"
    /\ Len(ws2.recv) = MaxConcMsgs
    /\ Len(ws2.out) = 1
    /\ IsResult(ws2.out[1])

\* the frames that connection w got for its last two frames are those it
\* gets when it runs alone
AsAlone(w) ==
    /\ (w.pc \in {"receive", "closed"} /\ Len(w.recv) > 0) =>
          w.out = AloneAnswer(w.data)
    /\ (Len(w.recv) > 1) => w.prev.out = AloneAnswer(w.prev.data)

\* the j-th frame of a push stream that runs alone
AloneFrame(j) ==
    SseYield(IF j = 1 THEN "start" ELSE IF j = 2 THEN "tools" ELSE "sleep")

\* C23: with two WebSocket connections, a push stream and unary requests
\* progressing in every interleaving, each connection receives the
\* envelopes it receives when it runs alone, and no handler writes the
\* state the connections share.
C23_ConnectionsIndependent ==
    /\ [](AsAlone(ws) /\ AsAlone(ws2))
    /\ [](Served => http.resp = Endpoint(http.endpoint, InitialTasks, http.body))
    /\ [](\A j \in 1..Len(sse.out) : sse.out[j] = AloneFrame(j))
    /\ [][SAMPLE_TASKS' = SAMPLE_TASKS]_vars

\* C23, reached: both WebSocket connections have answered two frames each
\* with a result, the push stream has sent a heartbeat and a POST has been
\* answered, all in one run.
C23_Witness ==
    /\ ws.pc = "receive" /\ Len(ws.recv) > 1
    /\ Len(ws.out) = 1 /\ IsResult(ws.out[1])
    /\ ws2.pc = "receive" /\ Len(ws2.recv) > 1
    /\ Len(ws2.out) = 1 /\ IsResult(ws2.out[1])
    /\ sse.pc = "sleep" /\ sse.pings > 0
    /\ Served /\ http.resp.kind = "json" /\ IsResult(http.resp.body)

===========================================================================
